---- MODULE Spec2Model ----
\* A model of typecomp's Workspace / Project / InMemoryLanguageServiceHost
\* (src/src/helpers.ts, src/src/project.ts lines 1-213).
\*
\* Everything runs synchronously on one thread of control (spec section 5):
\* at most one Workspace.diagnose / Workspace.compile call is in flight, and
\* while it is, the language service (the analysis engine) calls back into the
\* host (getScriptVersion, getScriptSnapshot, getScriptKind) as it pleases.
\* The disk and the configuration files change between calls.
EXTENDS Integers, Sequences, FiniteSets, TLC

\* ------------------------------------------------------------------ bounds

\* The number of things done around the Workspace's calls in one behaviour:
\* writes to source files and to configuration files, and calls made on a
\* Project or its host directly (Project.index, removeFile).
MaxChanges == 1

\* The number of Workspace.diagnose / Workspace.compile calls in one behaviour.
MaxCalls == 2


\* --------------------------------------------------------------- strings
\* A string is a sequence of tokens; a token is a character or the digest
\* md5 makes of a string (32 hex characters, kept as one token). Two digests
\* are equal exactly when the hashed strings are: md5 is collision-free here.

Chr(c) == [c |-> c, of |-> <<>>]

Str(c) == <<Chr(c)>>

EmptyString == <<>>

\* The texts a source file may hold on disk.
Texts == {EmptyString, Str("x")}

\* ------------------------------------------------------------ file system

\* Directories, as the sequence of their segments below the filesystem root.
FsRoot == <<>>

P1 == <<"p1">>

P1Lib == <<"p1", "lib">>

P2 == <<"p2">>

Q == <<"q">>

Dirs == {FsRoot, P1, P1Lib, P2, Q}

\* The directories that hold a tsconfig.json (the configuration layout).
ConfigDirs == {P1, P2}

File(dir, stem, ext) == [dir |-> dir, stem |-> stem, ext |-> ext]

FileA == File(P1, "a", ".ts")

FileB == File(P1Lib, "b", ".js")

FileC == File(P2, "c", ".tsx")

FileD == File(Q, "d", ".txt")

Files == {FileA, FileB, FileC, FileD}

\* The files the engine asks the host for while it analyses (the files that
\* sources refer to), and the files that change on disk between calls.
SharedFiles == {FileA, FileC}

EditedFiles == {FileA}

\* What a tsconfig.json may hold: a well-formed content and a malformed one.
ConfigTexts == {"A", "malformed"}

NoDir == [found |-> FALSE, dir |-> FsRoot]

VARIABLES
  disk,      \* disk[f]: [ok |-> the file can be read, text |-> its content]
  config,    \* config[d]: the content of d/tsconfig.json, for d in ConfigDirs
  projects,  \* Workspace.projects: root -> Project (0: no entry), by identity
  heap,      \* heap[id]: the Project constructed id-th, with its host's fields
  registry,  \* registry[r]: the entries of document registry r
  call,      \* the Workspace call in flight, and how far it has got
  ret,       \* how the last finished call ended
  pulled,    \* the record the getter just called by the engine took its result from
  used,      \* what the behaviour has spent of its bounds so far
  walks      \* walks[f]: the tsconfig.findSync walks made for f so far, for
             \* the files whose walks are counted

vars == <<disk, config, projects, heap, registry, call, ret, pulled, used, walks>>

\* ------------------------------------------------------------------ md5

\* md5(input): the digest of input, one token standing for its hex text.
md5(input) == <<[c |-> "#", of |-> input]>>

\* ------------------------------------------------------------ JavaScript Map
\* A Map is the sequence of its entries in insertion order: set on a key that
\* is present keeps the entry's place, set on a new key appends.

MapHas(m, k) == \E i \in 1..Len(m) : m[i].key = k

MapGet(m, k) == m[CHOOSE i \in 1..Len(m) : m[i].key = k].value

\* A Map that puts a new key in front of the others.
MapSetFront(m, k, v) ==
  IF MapHas(m, k)
    THEN [i \in 1..Len(m) |-> IF m[i].key = k THEN [key |-> k, value |-> v] ELSE m[i]]
    ELSE <<[key |-> k, value |-> v]>> \o m

MapSet(m, k, v) ==
  IF MapHas(m, k)
    THEN [i \in 1..Len(m) |-> IF m[i].key = k THEN [key |-> k, value |-> v] ELSE m[i]]
    ELSE Append(m, [key |-> k, value |-> v])

MapEntryIsNot(k, e) == e.key # k

MapDelete(m, k) == SelectSeq(m, LAMBDA e : MapEntryIsNot(k, e))

MapKeys(m) == [i \in 1..Len(m) |-> m[i].key]

\* ------------------------------------------------------------- getRoot

\* tsconfig.findSync(dir): the nearest tsconfig.json at dir or above it.
RECURSIVE findSync(_)
findSync(dir) ==
  IF dir \in ConfigDirs THEN [found |-> TRUE, dir |-> dir]
  ELSE IF dir = FsRoot THEN NoDir
  ELSE findSync(SubSeq(dir, 1, Len(dir) - 1))

\* A getRoot that falls back to the top of the file system.
getRootOrFsRoot(filename) ==
  IF findSync(filename.dir).found THEN findSync(filename.dir)
  ELSE [found |-> TRUE, dir |-> FsRoot]

\* getRoot(filename): the directory of the nearest configuration, or null.
getRoot(filename) == findSync(filename.dir)

\* Project.resolve: path.resolve(process.cwd(), filename). A file here is an
\* absolute, normalised path (directory, stem, extension), and path.resolve
\* returns such a path as it is.
resolve(filename) == filename

\* ------------------------------------------------------------- the host

\* TS.parseConfigFileTextToJson: the parser is error-tolerant, it returns what
\* it could read together with the first error.
parseConfigFileTextToJson(text) ==
  IF text = "malformed" THEN [config |-> "{}", error |-> TRUE]
  ELSE [config |-> text, error |-> FALSE]

\* TS.parseJsonConfigFileContent: the options of a configuration object.
parseJsonConfigFileContent(json) ==
  [options |-> [of |-> json], errors |-> FALSE]

\* InMemoryLanguageServiceHost.getOptions(root): only `config` and `options`
\* are taken from the two results; `error` and `errors` are dropped.
getOptions(root) ==
  IF ~findSync(root).found THEN [of |-> "{}"]
  ELSE parseJsonConfigFileContent(
         parseConfigFileTextToJson(config[findSync(root).dir]).config).options

\* The script kind addFile's switch leaves in `kind`: the cases have no break,
\* so control falls from the matching case through every later assignment.
KindCases == <<".js", ".jsx", ".ts", ".tsx">>

KindAssigned == <<"JS", "JSX", "TS", "TSX">>

RECURSIVE FallThrough(_, _, _)
FallThrough(i, matched, kind) ==
  IF i > Len(KindCases) THEN kind
  ELSE FallThrough(i + 1, matched, IF matched THEN KindAssigned[i] ELSE kind)

RECURSIVE Switch(_, _)
Switch(ext, i) ==
  IF i > Len(KindCases) THEN "Unknown"
  ELSE IF KindCases[i] = ext THEN FallThrough(i, TRUE, "Unknown")
  ELSE Switch(ext, i + 1)

ScriptKindOf(fileName) == Switch(fileName.ext, 1)

\* The registry a Workspace hands to every Project it constructs.
WorkspaceRegistry == 0

\* new InMemoryLanguageServiceHost(root), with the registry the Project binds
\* its language service to. configText is the configuration text the
\* constructor read, and first the paths in the order files.set first saw
\* each of them (records of the history, not fields of the host).
NewHost(root, reg) ==
  [root |-> root, registry |-> reg, options |-> getOptions(root),
   configText |-> IF findSync(root).found THEN config[findSync(root).dir] ELSE "none",
   files |-> <<>>, version |-> EmptyString, first |-> <<>>]

\* The history of first insertions after files.set(fileName, ...).
FirstTracked(first, fileName) ==
  IF \E i \in 1..Len(first) : first[i] = fileName THEN first
  ELSE Append(first, fileName)

\* An addFile that never returns early.
UnchangedNever(h, fileName, version) == FALSE

\* An addFile that returns early whenever it holds a record for the path.
UnchangedIfHeld(h, fileName, version) == MapHas(h.files, fileName)

\* addFile's early return: a record is held and its version is the new one.
Unchanged(h, fileName, version) ==
  MapHas(h.files, fileName) /\ MapGet(h.files, fileName).version = version

\* A project version made of the last file version alone.
NextProjectVersionUnchained(old, version) == md5(version)

\* this.version = md5(this.version + version)
NextProjectVersion(old, version) == md5(old \o version)

\* A ScriptInfo whose version is made of the path, not of the text.
NewInfoPathVersion(fileName, text) ==
  [version |-> md5(Str(fileName.stem)), snapshot |-> text, kind |-> ScriptKindOf(fileName)]

\* The ScriptInfo addFile builds from the text it read.
NewInfo(fileName, text) ==
  [version |-> md5(text), snapshot |-> text, kind |-> ScriptKindOf(fileName)]

\* The host after addFile(fileName) has read `text` from the disk.
AddFileRead(h, fileName, text) ==
  IF Unchanged(h, fileName, md5(text)) THEN h
  ELSE [h EXCEPT !.version = NextProjectVersion(h.version, md5(text)),
                 !.files = MapSet(h.files, fileName, NewInfo(fileName, text)),
                 !.first = FirstTracked(h.first, fileName)]

\* A removeFile that clears the whole Map.
removeFileClears(h, fileName) == [h EXCEPT !.files = <<>>]

\* this.files.delete(fileName)
removeFile(h, fileName) == [h EXCEPT !.files = MapDelete(h.files, fileName)]

\* An addFile that forgets the record it holds when the read fails.
AddFileThrewDrops(h, fileName) == removeFile(h, fileName)

\* The host after an addFile(fileName) whose readFileSync threw: the read is
\* the first statement, nothing has been assigned.
AddFileThrew(h, fileName) == h

\* addFile(fileName) on host h: the host after the call.
addFile(h, fileName) ==
  IF disk[fileName].ok THEN AddFileRead(h, fileName, disk[fileName].text)
  ELSE AddFileThrew(h, fileName)

\* addFile's return value (when the read succeeds).
addFileResult(h, fileName) == MapGet(addFile(h, fileName).files, fileName)

\* this.files.get(fileName) || this.addFile(fileName): the record a getter
\* reads its field from, and the host after the getter.
\* A getter that reads the file again whether or not a record is held.
GetOrAddRefreshes(h, fileName) == addFile(h, fileName)

GetOrAdd(h, fileName) ==
  IF MapHas(h.files, fileName) THEN h ELSE addFile(h, fileName)

GetOrAddInfo(h, fileName) == MapGet(GetOrAdd(h, fileName).files, fileName)

\* Whether the getter throws: the path is not held and cannot be read.
GetOrAddThrows(h, fileName) == ~MapHas(h.files, fileName) /\ ~disk[fileName].ok

\* The file names, newest first.
getScriptFileNamesReversed(h) ==
  [i \in 1..Len(h.files) |-> MapKeys(h.files)[Len(h.files) + 1 - i]]

\* Array.from(this.files.keys()): the keys in the Map's insertion order.
getScriptFileNames(h) == MapKeys(h.files)

getProjectVersion(h) == h.version

\* Compilation settings read from the configuration file at every call.
getCompilationSettingsReread(h) == getOptions(h.root)

\* return this.options
getCompilationSettings(h) == h.options

\* ------------------------------------------------------- document registry
\* The registry is TypeScript's, reached through ./registry; its entries are
\* modelled from the specification's ArtifactRegistry (section 4.2): one entry
\* per (path, version), a put for a path evicts the entries that path has
\* under other versions, and a hit hands out the held entry, adding none.

RegistryIds == 0..2

RegistryHit(entries, path, version) ==
  \E e \in entries : e.path = path /\ e.version = version

RegistryAcquire(entries, path, version) ==
  IF RegistryHit(entries, path, version) THEN entries
  ELSE {e \in entries : e.path # path} \cup {[path |-> path, version |-> version]}

\* ------------------------------------------------------------ the calls

Idle ==
  [op |-> "idle", file |-> FileA, project |-> 0, pos |-> 0,
   syn |-> <<>>, sem |-> <<>>, out |-> <<>>, log |-> <<>>]

NoReturn ==
  [op |-> "none", file |-> FileA, project |-> 0, status |-> "none",
   value |-> <<>>, syn |-> <<>>, sem |-> <<>>, log |-> <<>>]

NoInfo == [version |-> EmptyString, snapshot |-> EmptyString, kind |-> "none"]

NoDocument == [registry |-> 0, path |-> FileA, version |-> EmptyString, found |-> FALSE]

NoPull == [file |-> FileA, info |-> NoInfo, doc |-> NoDocument]

\* What the engine may answer to a request.
SyntacticAnswers == {<<>>, <<"s2", "s1">>}

SemanticAnswers == {<<"t1">>, <<"t2", "t1">>}

EmitAnswers == {<<>>, <<"a.js">>}

\* A diagnose that asks the engine before it tracks the file.
DiagnoseStepsEngineFirst == <<"syntactic", "track", "semantic">>

\* Project.diagnose and Project.compile, as the steps they take in order.
DiagnoseSteps == <<"track", "syntactic", "semantic">>

CompileSteps == <<"track", "emit">>

Steps(op) == IF op = "diagnose" THEN DiagnoseSteps ELSE CompileSteps

EngineSteps == {"syntactic", "semantic", "emit"}

\* return [...syntactic, ...semantic]
DiagnoseResult(syntactic, semantic) == syntactic \o semantic

CurrentStep == IF call.op = "idle" THEN "none" ELSE Steps(call.op)[call.pos]

\* A lookup that never finds the Project registered for a root.
LookupForgets(root) == 0

\* this.projects.get(root)
Lookup(root) == projects[root]

\* A registry of its own for every Project.
ProjectRegistryOwn(id) == id

\* The registry projectFor passes to new Project(root, this.registry).
ProjectRegistry(id) == WorkspaceRegistry

\* The Project projectFor(filename) returns, and the map and the heap after it.
ProjectForId(root) == IF Lookup(root) = 0 THEN Len(heap) + 1 ELSE Lookup(root)

ProjectForProjects(root) ==
  IF Lookup(root) = 0 THEN [projects EXCEPT ![root] = Len(heap) + 1] ELSE projects

\* A construction that empties the Map of every host built before, as one
\* Map shared by all hosts and set up again by each constructor would.
ProjectForHeapClears(root) ==
  IF Lookup(root) = 0
    THEN Append([i \in 1..Len(heap) |-> [heap[i] EXCEPT !.files = <<>>]],
                NewHost(root, ProjectRegistry(Len(heap) + 1)))
    ELSE heap

ProjectForHeap(root) ==
  IF Lookup(root) = 0
    THEN Append(heap, NewHost(root, ProjectRegistry(Len(heap) + 1)))
    ELSE heap

\* The state after new Workspace(), all but the count of walks.
Constructed ==
  /\ disk = [f \in Files |-> [ok |-> TRUE, text |-> Str("x")]]
  /\ config = [d \in ConfigDirs |-> IF d = P1 THEN "A" ELSE "malformed"]
  /\ projects = [d \in Dirs |-> 0]
  /\ heap = <<>>
  /\ registry = [r \in RegistryIds |-> {}]
  /\ call = Idle
  /\ ret = NoReturn
  /\ pulled = NoPull
  /\ used = [calls |-> 0, changes |-> 0]

\* The state after new Workspace(); no file's walks are counted.
Init == Constructed /\ walks = [f \in {} |-> 0]

\* The state after new Workspace(); the walks of every file are counted.
InitWalks == Constructed /\ walks = [f \in Files |-> 0]

\* The call in flight moves on to c: it returns when its steps are done.
Proceed(c) ==
  IF c.pos > Len(Steps(c.op))
    THEN /\ call' = Idle
         /\ ret' = [op |-> c.op, file |-> c.file, project |-> c.project, status |-> "ok",
                    value |-> IF c.op = "diagnose" THEN DiagnoseResult(c.syn, c.sem) ELSE c.out,
                    syn |-> c.syn, sem |-> c.sem, log |-> c.log]
    ELSE /\ call' = c
         /\ ret' = NoReturn

\* The call in flight ends with an exception, raised by reading fileName.
Throw(status, fileName) ==
  /\ call' = Idle
  /\ ret' = [op |-> call.op, file |-> fileName, project |-> call.project, status |-> status,
             value |-> <<>>, syn |-> call.syn, sem |-> call.sem, log |-> call.log]

Stepped(name) == [call EXCEPT !.pos = @ + 1, !.log = Append(@, name)]

\* The count of walks after getRoot(filename): projectFor calls getRoot, and
\* getRoot calls tsconfig.findSync, first thing in every call.
Walked(count, filename) ==
  [f \in DOMAIN count |-> IF f = filename THEN count[f] + 1 ELSE count[f]]

\* Workspace.diagnose(filename) / Workspace.compile(filename) up to the entry
\* of Project.diagnose / Project.compile: projectFor, then resolve.
WorkspaceCall(op, filename) ==
  /\ call.op = "idle"
  /\ used.calls < MaxCalls
  /\ used' = [used EXCEPT !.calls = @ + 1]
  /\ IF ~getRoot(filename).found
       THEN /\ ret' = [NoReturn EXCEPT !.op = op, !.file = filename,
                                       !.status = "NoConfiguration"]
            /\ UNCHANGED <<projects, heap, call>>
       ELSE /\ projects' = ProjectForProjects(getRoot(filename).dir)
            /\ heap' = ProjectForHeap(getRoot(filename).dir)
            /\ call' = [Idle EXCEPT !.op = op, !.file = resolve(filename), !.pos = 1,
                                    !.project = ProjectForId(getRoot(filename).dir)]
            /\ ret' = NoReturn
  /\ pulled' = NoPull
  /\ walks' = Walked(walks, filename)
  /\ UNCHANGED <<disk, config, registry>>

\* this.index(filename): host.addFile(filename) inside diagnose / compile.
TrackStep ==
  /\ CurrentStep = "track"
  /\ LET h == heap[call.project] IN
       /\ heap' = [heap EXCEPT ![call.project] = addFile(h, call.file)]
       /\ IF disk[call.file].ok THEN Proceed(Stepped("track")) ELSE Throw("FileUnreadable", call.file)
  /\ pulled' = NoPull
  /\ UNCHANGED <<disk, config, projects, registry, used, walks>>

\* service.getSyntacticDiagnostics(filename) returns.
SyntacticStep(answer) ==
  /\ CurrentStep = "syntactic"
  /\ Proceed([Stepped("syntactic") EXCEPT !.syn = answer])
  /\ pulled' = NoPull
  /\ UNCHANGED <<disk, config, projects, heap, registry, used, walks>>

\* service.getSemanticDiagnostics(filename) returns.
SemanticStep(answer) ==
  /\ CurrentStep = "semantic"
  /\ Proceed([Stepped("semantic") EXCEPT !.sem = answer])
  /\ pulled' = NoPull
  /\ UNCHANGED <<disk, config, projects, heap, registry, used, walks>>

\* service.getEmitOutput(filename) returns.
EmitStep(answer) ==
  /\ CurrentStep = "emit"
  /\ Proceed([Stepped("emit") EXCEPT !.out = answer])
  /\ pulled' = NoPull
  /\ UNCHANGED <<disk, config, projects, heap, registry, used, walks>>

\* const { version } = ..., const { snapshot } = ..., const { kind } = ...:
\* the field of the record that a getter returns.
Returned(fn, info) ==
  IF fn = "getScriptVersion" THEN info.version
  ELSE IF fn = "getScriptSnapshot" THEN info.snapshot
  ELSE info.kind

HostGetters == {"getScriptVersion", "getScriptSnapshot", "getScriptKind"}

\* With the snapshot it has pulled, the engine takes the path's document from
\* the registry its language service was created with, under the version held.
EngineAcquire(fn, reg, fileName, version) ==
  IF fn = "getScriptSnapshot"
    THEN [registry EXCEPT ![reg] = RegistryAcquire(@, fileName, version)]
    ELSE registry

\* The document the engine holds after that: the registry's entry for the key.
EngineDocument(fn, reg, fileName, version) ==
  IF fn = "getScriptSnapshot"
    THEN [registry |-> reg, path |-> fileName, version |-> version, found |-> TRUE]
    ELSE NoDocument

\* The engine, inside a request, calls getScriptVersion / getScriptSnapshot /
\* getScriptKind of the call's host for a path of its choice.
EnginePull(fn, fileName) ==
  /\ CurrentStep \in EngineSteps
  /\ LET h == heap[call.project] IN
       /\ heap' = [heap EXCEPT ![call.project] = GetOrAdd(h, fileName)]
       /\ IF GetOrAddThrows(h, fileName)
            THEN Throw("FileUnreadable", fileName) /\ pulled' = NoPull /\ UNCHANGED registry
            ELSE /\ pulled' = [file |-> fileName, info |-> GetOrAddInfo(h, fileName),
                               doc |-> EngineDocument(fn, h.registry, fileName,
                                                      GetOrAddInfo(h, fileName).version)]
                 /\ registry' = EngineAcquire(fn, h.registry, fileName,
                                              GetOrAddInfo(h, fileName).version)
                 /\ UNCHANGED <<call, ret>>
  /\ UNCHANGED <<disk, config, projects, used, walks>>

\* Project.index(filename), called on a Project directly.
Index(id, fileName) ==
  /\ call.op = "idle"
  /\ id \in DOMAIN heap
  /\ used.changes < MaxChanges
  /\ used' = [used EXCEPT !.changes = @ + 1]
  /\ heap' = [heap EXCEPT ![id] = addFile(heap[id], fileName)]
  /\ ret' = [NoReturn EXCEPT !.op = "index", !.file = fileName, !.project = id,
                             !.status = IF disk[fileName].ok THEN "ok" ELSE "FileUnreadable"]
  /\ pulled' = NoPull
  /\ UNCHANGED <<disk, config, projects, registry, call, walks>>

\* host.removeFile(fileName).
RemoveFile(id, fileName) ==
  /\ call.op = "idle"
  /\ id \in DOMAIN heap
  /\ used.changes < MaxChanges
  /\ used' = [used EXCEPT !.changes = @ + 1]
  /\ heap' = [heap EXCEPT ![id] = removeFile(heap[id], fileName)]
  /\ ret' = [NoReturn EXCEPT !.op = "removeFile", !.file = fileName, !.project = id,
                             !.status = "ok"]
  /\ pulled' = NoPull
  /\ UNCHANGED <<disk, config, projects, registry, call, walks>>

\* Between calls, somebody writes a source file, or removes it.
WriteFile(fileName, text) ==
  /\ call.op = "idle"
  /\ used.changes < MaxChanges
  /\ disk[fileName] # [ok |-> TRUE, text |-> text]
  /\ disk' = [disk EXCEPT ![fileName] = [ok |-> TRUE, text |-> text]]
  /\ used' = [used EXCEPT !.changes = @ + 1]
  /\ ret' = NoReturn /\ pulled' = NoPull
  /\ UNCHANGED <<config, projects, heap, registry, call, walks>>

DeleteFile(fileName) ==
  /\ call.op = "idle"
  /\ used.changes < MaxChanges
  /\ disk[fileName].ok
  /\ disk' = [disk EXCEPT ![fileName] = [ok |-> FALSE, text |-> EmptyString]]
  /\ used' = [used EXCEPT !.changes = @ + 1]
  /\ ret' = NoReturn /\ pulled' = NoPull
  /\ UNCHANGED <<config, projects, heap, registry, call, walks>>

\* Between calls, somebody rewrites a tsconfig.json.
WriteConfig(dir, text) ==
  /\ call.op = "idle"
  /\ used.changes < MaxChanges
  /\ config[dir] # text
  /\ config' = [config EXCEPT ![dir] = text]
  /\ used' = [used EXCEPT !.changes = @ + 1]
  /\ ret' = NoReturn /\ pulled' = NoPull
  /\ UNCHANGED <<disk, projects, heap, registry, call, walks>>

\* Direct calls are made on the Project the Workspace constructed first.
DirectProjects == {1}

Next ==
  \/ \E op \in {"diagnose", "compile"}, f \in Files : WorkspaceCall(op, f)
  \/ TrackStep
  \/ \E a \in SyntacticAnswers : SyntacticStep(a)
  \/ \E a \in SemanticAnswers : SemanticStep(a)
  \/ \E a \in EmitAnswers : EmitStep(a)
  \/ \E fn \in HostGetters, f \in SharedFiles : EnginePull(fn, f)
  \/ \E id \in DirectProjects, f \in SharedFiles : Index(id, f)
  \/ \E id \in DirectProjects, f \in SharedFiles : RemoveFile(id, f)
  \/ \E f \in EditedFiles, t \in Texts : WriteFile(f, t)
  \/ \E f \in EditedFiles : DeleteFile(f)
  \/ \E d \in ConfigDirs, t \in ConfigTexts : WriteConfig(d, t)

Spec == Init /\ [][Next]_vars

\* The same program with the walks counted.
SpecWalks == InitWalks /\ [][Next]_vars

\* ------------------------------------------------------------- properties

Host(id) == heap[id]

Holds(id, f) == id \in DOMAIN heap /\ MapHas(heap[id].files, f)

Held(id, f) == MapGet(heap[id].files, f)

\* The step is a Project.index(f) made directly on Project id.
IsIndex(id, f) ==
  /\ used'.changes # used.changes
  /\ ret'.op = "index" /\ ret'.project = id /\ ret'.file = f

\* The path's content on disk is the content read when it was last tracked.
SameOnDisk(id, f) == Holds(id, f) /\ disk[f].ok /\ Held(id, f).snapshot = disk[f].text

\* The path's content on disk is not the content read when it was last tracked.
ChangedOnDisk(id, f) == Holds(id, f) /\ disk[f].ok /\ Held(id, f).snapshot # disk[f].text

\* C1. Routing consistency: the Project a root is registered under is never
\* replaced, distinct roots have distinct Projects, each Project is the one
\* constructed for its root, and when a call enters a Project for a file,
\* that Project is the one every file with the same nearest root is routed to.
C1_RoutingConsistency ==
  [][ /\ \A r \in Dirs : projects[r] # 0 => projects'[r] = projects[r]
      /\ \A r1, r2 \in Dirs : (projects'[r1] # 0 /\ r1 # r2) => projects'[r1] # projects'[r2]
      /\ \A r \in Dirs : projects'[r] # 0 =>
           (projects'[r] \in DOMAIN heap' /\ heap'[projects'[r]].root = r)
      /\ (call.op = "idle" /\ call'.op # "idle") =>
           \A a \in Files : getRoot(a) = getRoot(call'.file) =>
             projects'[getRoot(a).dir] = call'.project
    ]_vars

\* A call for /p1/lib/b.js is served by the Project that already tracks /p1/a.ts.
C1_Witness ==
  /\ call.op # "idle" /\ call.file = FileB /\ call.pos = 1
  /\ call.project # 0 /\ call.project = projects[P1]
  /\ Holds(call.project, FileA) /\ ~Holds(call.project, FileB)

\* C2. Idempotent tracking: the track step of diagnose / compile, and
\* Project.index, on a path whose content on disk is the content last read for
\* it, change nothing: every host keeps its records, their order and its
\* project version, and the registry is untouched.
C2_IdempotentTracking ==
  [][ /\ (CurrentStep = "track" /\ SameOnDisk(call.project, call.file)) =>
           (heap' = heap /\ registry' = registry /\ call'.op = call.op)
      /\ \A id \in DOMAIN heap, f \in Files :
           (IsIndex(id, f) /\ SameOnDisk(id, f)) =>
             (heap' = heap /\ registry' = registry /\ ret'.status = "ok")
    ]_vars

\* Project.index has run on the one file its host tracks, and the project
\* version is still the one the first track of that file made.
C2_Witness ==
  /\ ret.op = "index" /\ ret.status = "ok" /\ ret.project \in DOMAIN heap
  /\ MapKeys(Host(ret.project).files) = <<ret.file>>
  /\ Held(ret.project, ret.file).snapshot = disk[ret.file].text
  /\ Host(ret.project).version = md5(md5(disk[ret.file].text))

\* The path's record after the step is a new one made of the disk's content.
Retracked(id, f) ==
  /\ MapHas(heap'[id].files, f)
  /\ MapGet(heap'[id].files, f).version # Held(id, f).version
  /\ MapGet(heap'[id].files, f).version = md5(disk[f].text)
  /\ MapGet(heap'[id].files, f).snapshot = disk[f].text

\* C3. Change detection: tracking a held path whose content on disk has
\* changed replaces its record by one with a different version and the new
\* content; while the engine works on a call's file, the host holds that
\* file's content as it is on disk, and that is what the engine pulls.
C3_ChangeDetection ==
  [][ /\ (CurrentStep = "track" /\ ChangedOnDisk(call.project, call.file)) =>
           Retracked(call.project, call.file)
      /\ \A id \in DOMAIN heap, f \in Files :
           (IsIndex(id, f) /\ ChangedOnDisk(id, f)) => Retracked(id, f)
      /\ (call'.op # "idle" /\ Steps(call'.op)[call'.pos] \in EngineSteps) =>
           /\ MapHas(heap'[call'.project].files, call'.file)
           /\ MapGet(heap'[call'.project].files, call'.file).snapshot = disk'[call'.file].text
           /\ (pulled'.info.kind # "none" /\ pulled'.file = call'.file) =>
                pulled'.info.snapshot = disk'[call'.file].text
    ]_vars

\* The engine pulls the empty text of a file that was first tracked as "x".
C3_Witness ==
  /\ call.op = "diagnose" /\ pulled.info.kind # "none" /\ pulled.file = call.file
  /\ pulled.info.snapshot = EmptyString /\ disk[call.file].text = EmptyString
  /\ MapKeys(Host(call.project).files) = <<call.file>>
  /\ Host(call.project).version = md5(md5(md5(Str("x"))) \o md5(EmptyString))

\* The entries, over all registries, stored under a key.
EntriesFor(path, version) ==
  {<<r, e>> \in RegistryIds \X UNION {registry[r] : r \in RegistryIds} :
     e \in registry[r] /\ e.path = path /\ e.version = version}

\* C4. Cross-project sharing: every Project is bound to the Workspace's one
\* registry; two Projects that track a path with the same content hold it
\* under the same version; no (path, version) has more than one entry; and
\* the document the engine takes for a key is that key's one entry, in the
\* Workspace's registry.
C4_CrossProjectSharing ==
  /\ \A id \in DOMAIN heap : Host(id).registry = WorkspaceRegistry
  /\ \A id1, id2 \in DOMAIN heap, f \in Files :
       (Holds(id1, f) /\ Holds(id2, f) /\ Held(id1, f).snapshot = Held(id2, f).snapshot)
         => Held(id1, f).version = Held(id2, f).version
  /\ \A f \in Files, id \in DOMAIN heap :
       Holds(id, f) => Cardinality(EntriesFor(f, Held(id, f).version)) <= 1
  /\ pulled.doc.found =>
       EntriesFor(pulled.doc.path, pulled.doc.version)
         = {<<WorkspaceRegistry, [path |-> pulled.doc.path, version |-> pulled.doc.version]>>}

\* Two Projects of distinct roots hold a path under one version, and the
\* engine of one of them has just taken its document from the registry.
C4_Witness ==
  /\ Len(heap) = 2 /\ Host(1).root # Host(2).root
  /\ pulled.doc.found
  /\ Holds(1, pulled.doc.path) /\ Holds(2, pulled.doc.path)
  /\ Held(1, pulled.doc.path).version = pulled.doc.version
  /\ Held(2, pulled.doc.path).version = pulled.doc.version
  /\ Cardinality(EntriesFor(pulled.doc.path, pulled.doc.version)) = 1

\* C5. Malformed configuration: no Project is registered whose construction
\* read a malformed configuration (the construction fails instead).
C5_MalformedNeverRegistered ==
  \A r \in Dirs : projects[r] # 0 => Host(projects[r]).configText # "malformed"

\* The file a Workspace call that is just being made was given.
CalledFile == IF call'.op # "idle" THEN call'.file ELSE ret'.file

\* C6. NoConfiguration: a Workspace call for a file with no configuration
\* above it ends at once with the error, constructs no Project and leaves the
\* map, the hosts and the registry as they were, with the Workspace ready for
\* the next call; a call for any other file does not end with that error.
C6_NoConfiguration ==
  [][ used'.calls # used.calls =>
        IF findSync(CalledFile.dir).found
          THEN ret'.status # "NoConfiguration" /\ call'.op # "idle"
          ELSE /\ ret'.status = "NoConfiguration"
               /\ call' = Idle
               /\ projects' = projects /\ heap' = heap /\ registry' = registry
    ]_vars

\* A call has ended with NoConfiguration in a Workspace that has a Project.
C6_Witness ==
  /\ ret.status = "NoConfiguration" /\ ret.file = FileD
  /\ call = Idle /\ Len(heap) > 0

\* C7. FileUnreadable: a track of a path that cannot be read changes no host
\* (the record held for the path stays), no map and no registry; diagnose and
\* compile end with the failure, having asked the engine for nothing.
C7_FileUnreadable ==
  [][ /\ (CurrentStep = "track" /\ ~disk[call.file].ok) =>
           /\ heap' = heap /\ projects' = projects /\ registry' = registry
           /\ call' = Idle
           /\ ret'.status = "FileUnreadable" /\ ret'.file = call.file
           /\ \A i \in 1..Len(ret'.log) : ret'.log[i] \notin EngineSteps
      /\ \A id \in DOMAIN heap, f \in Files :
           (IsIndex(id, f) /\ ~disk[f].ok) =>
             (heap' = heap /\ registry' = registry /\ ret'.status = "FileUnreadable")
    ]_vars

\* A diagnose / compile has failed on an unreadable file whose earlier
\* record the host still holds.
C7_Witness ==
  /\ ret.op \in {"diagnose", "compile"} /\ ret.status = "FileUnreadable"
  /\ ret.log = <<>> /\ ~disk[ret.file].ok
  /\ Holds(ret.project, ret.file)
  /\ Held(ret.project, ret.file).snapshot = Str("x")

\* C8. Order in diagnose: a diagnose that returns has tracked, then asked for
\* the syntactic, then for the semantic diagnostics, and returns the syntactic
\* answer followed by the semantic one; the engine is asked nothing, and calls
\* no getter, before the track step is done.
C8_DiagnoseOrder ==
  /\ (ret.op = "diagnose" /\ ret.status = "ok") =>
       /\ ret.log = <<"track", "syntactic", "semantic">>
       /\ ret.value = ret.syn \o ret.sem
  /\ call.op = "diagnose" =>
       /\ \A i \in 1..Len(call.log) :
            call.log[i] \in EngineSteps => (i > 1 /\ call.log[1] = "track")
       /\ pulled.info.kind # "none" => (call.log # <<>> /\ call.log[1] = "track")

\* A diagnose has returned two syntactic followed by two semantic diagnostics.
C8_Witness ==
  /\ ret.op = "diagnose" /\ ret.status = "ok"
  /\ ret.syn = <<"s2", "s1">> /\ ret.sem = <<"t2", "t1">>
  /\ ret.value = <<"s2", "s1", "t2", "t1">>

\* The step is a getter call by the engine for path f.
IsPull(f) ==
  /\ CurrentStep \in EngineSteps
  /\ \/ pulled'.info.kind # "none" /\ pulled'.file = f /\ pulled' # pulled
     \/ ret'.status = "FileUnreadable" /\ ret'.file = f /\ call' = Idle

\* The getter has registered a record for f, made of the disk's content, after
\* the paths held before, advanced the project version, and read its result
\* from that record.
TrackedOnRead(f) ==
  /\ call' = call /\ projects' = projects
  /\ MapHas(heap'[call.project].files, f)
  /\ MapGet(heap'[call.project].files, f).snapshot = disk[f].text
  /\ MapGet(heap'[call.project].files, f).version = md5(disk[f].text)
  /\ MapKeys(heap'[call.project].files) = Append(MapKeys(Host(call.project).files), f)
  /\ heap'[call.project].version # Host(call.project).version
  /\ heap'[call.project].version = md5(Host(call.project).version \o md5(disk[f].text))
  /\ pulled'.info = MapGet(heap'[call.project].files, f)
  /\ \A id \in DOMAIN heap : id # call.project => heap'[id] = heap[id]

\* C9 as stated. Implicit track-on-read: a getter called for a path the host
\* does not hold does not fail, and registers the path.
C9_TrackOnReadNeverFails ==
  [][ \A f \in Files : (IsPull(f) /\ ~Holds(call.project, f)) => TrackedOnRead(f) ]_vars

\* C9, amended. A getter called for a path the host does not hold registers
\* the path when the file can be read; when it cannot, the getter fails with
\* the read error and the host is left as it was.
C9_TrackOnRead ==
  [][ \A f \in Files : (IsPull(f) /\ ~Holds(call.project, f)) =>
        IF disk[f].ok THEN TrackedOnRead(f)
        ELSE /\ heap' = heap /\ registry' = registry
             /\ ret'.status = "FileUnreadable" /\ call' = Idle
    ]_vars

\* The engine has pulled a second path into the host of the call's file.
C9_Witness ==
  /\ call.op # "idle" /\ pulled.info.kind # "none" /\ pulled.file # call.file
  /\ MapKeys(Host(call.project).files) = <<call.file, pulled.file>>
  /\ pulled.info = Held(call.project, pulled.file)
  /\ pulled.info.snapshot = disk[pulled.file].text

\* C10. The project version changes with every file-version change: a step
\* that gives a host a record for a path it did not hold, or a record of
\* another version for a path it held, changes that host's project version.
C10_ProjectVersionChanges ==
  [][ \A id \in DOMAIN heap, f \in Files :
        ( /\ heap'[id].files # Host(id).files
          /\ MapHas(heap'[id].files, f)
          /\ (Holds(id, f) => MapGet(heap'[id].files, f).version # Held(id, f).version) )
        => heap'[id].version # Host(id).version
    ]_vars

\* A host holds two paths of equal content, and its project version is the
\* chain of their two versions.
C10_Witness ==
  \E id \in DOMAIN heap :
    /\ Len(Host(id).files) = 2
    /\ Host(id).files[1].value.version = Host(id).files[2].value.version
    /\ Host(id).version = md5(md5(Host(id).files[1].value.version)
                              \o Host(id).files[2].value.version)

\* The (path, version) pairs a host tracks.
TrackedPairs(id) ==
  {<<Host(id).files[i].key, Host(id).files[i].value.version>> : i \in 1..Len(Host(id).files)}

\* C11. The project version is order-independent: two sessions that track
\* the same set of (path, version) pairs, two paths or more, have the same
\* project version.
C11_OrderIndependent ==
  \A id1, id2 \in DOMAIN heap :
    (Len(Host(id1).files) >= 2 /\ TrackedPairs(id1) = TrackedPairs(id2))
      => getProjectVersion(Host(id1)) = getProjectVersion(Host(id2))

\* C12. Snapshot / version consistency: the version of every record a host
\* holds, and of every record a getter hands out, is the md5 of exactly the
\* text in its snapshot, so no record has one of the two fields from another
\* read than the other.
C12_SnapshotVersionConsistent ==
  /\ \A id \in DOMAIN heap : \A i \in 1..Len(Host(id).files) :
       Host(id).files[i].value.version = md5(Host(id).files[i].value.snapshot)
  /\ pulled.info.kind # "none" => pulled.info.version = md5(pulled.info.snapshot)

\* A host has replaced the record of its one path, first read as "x", by the
\* record of the empty text.
C12_Witness ==
  \E id \in DOMAIN heap :
    /\ Len(Host(id).files) = 1
    /\ Host(id).files[1].value.snapshot = EmptyString
    /\ Host(id).files[1].value.version = md5(EmptyString)
    /\ Host(id).version = md5(md5(md5(Str("x"))) \o md5(EmptyString))

\* The paths of a sequence other than fileName, in their order.
Without(names, fileName) == SelectSeq(names, LAMBDA g : g # fileName)

\* The paths of a sequence that host id holds, in their order.
HeldOf(id, names) == SelectSeq(names, LAMBDA g : Holds(id, g))

\* C13 as stated. getScriptFileNames returns the tracked paths in the order
\* in which they were first tracked.
C13_FirstTrackedOrder ==
  \A id \in DOMAIN heap :
    getScriptFileNames(Host(id)) = HeldOf(id, Host(id).first)

\* C13. Stable file-list order: the sequence getScriptFileNames returns
\* changes in a step only by one path that was not tracked being put last,
\* or by one path being taken out with the others kept in their order; a
\* step that leaves the set of tracked paths as it is (a changed path
\* tracked again among them) leaves every position as it is.
C13_StableOrder ==
  [][\A id \in DOMAIN heap :
       (getScriptFileNames(Host(id)))' # getScriptFileNames(Host(id)) =>
         /\ \/ \E f \in Files :
                 /\ ~Holds(id, f)
                 /\ (getScriptFileNames(Host(id)))' = Append(getScriptFileNames(Host(id)), f)
            \/ \E f \in Files :
                 /\ Holds(id, f)
                 /\ (getScriptFileNames(Host(id)))' = Without(getScriptFileNames(Host(id)), f)
         /\ \E f \in Files : Holds(id, f) # (Holds(id, f))'
         /\ \A f \in Files : ~(Holds(id, f) /\ Retracked(id, f))]_vars

\* A host tracks a.ts then c.tsx, and a.ts, changed on disk and tracked
\* again, is still the first of the two.
C13_Witness ==
  \E id \in DOMAIN heap :
    /\ getScriptFileNames(Host(id)) = <<FileA, FileC>>
    /\ Held(id, FileA).snapshot = EmptyString
    /\ Held(id, FileC).snapshot = Str("x")
    /\ Host(id).first = <<FileA, FileC>>

\* The step is host id's removeFile(f).
IsRemove(id, f) ==
  /\ used'.changes # used.changes
  /\ ret'.op = "removeFile" /\ ret'.project = id /\ ret'.file = f

\* C14. Effect of untrack: removeFile(f) on a host takes the record of f,
\* and nothing else, out of the host: every other record and the order of
\* the others stay, and so do the project version, the options, the
\* registry, every other host, the routing and the disk; when f is not
\* tracked, nothing changes at all.
C14_RemoveFileFrame ==
  [][\A id \in DOMAIN heap : \A f \in Files :
       IsRemove(id, f) =>
         /\ ~Holds(id, f)'
         /\ (getScriptFileNames(Host(id)))' = Without(getScriptFileNames(Host(id)), f)
         /\ \A g \in Files \ {f} :
              Holds(id, g) => (Holds(id, g))' /\ (Held(id, g))' = Held(id, g)
         /\ (getProjectVersion(Host(id)))' = getProjectVersion(Host(id))
         /\ (getCompilationSettings(Host(id)))' = getCompilationSettings(Host(id))
         /\ \A other \in DOMAIN heap \ {id} : heap'[other] = heap[other]
         /\ DOMAIN heap' = DOMAIN heap
         /\ UNCHANGED <<registry, projects, disk, config>>
         /\ ~Holds(id, f) => heap' = heap]_vars

\* removeFile has just taken a tracked path out of a host that goes on
\* holding another path, with the project version both additions made.
C14_Witness ==
  /\ ret.op = "removeFile"
  /\ ret.project \in DOMAIN heap
  /\ ~Holds(ret.project, ret.file)
  /\ \E i \in 1..Len(Host(ret.project).first) : Host(ret.project).first[i] = ret.file
  /\ Len(Host(ret.project).files) = 1
  /\ \E v, w \in {md5(t) : t \in Texts} :
       getProjectVersion(Host(ret.project)) = md5(md5(v) \o w)

\* C15. Tracked-file lifecycle: a path a host tracks is tracked after every
\* step that is not that host's removeFile of that path: neither the file's
\* deletion on disk, nor a track, diagnose or compile that fails, nor any
\* step of another host takes it out; and removeFile of it does.
C15_TrackedUntilRemoved ==
  [][\A id \in DOMAIN heap : \A f \in Files :
       Holds(id, f) => ((Holds(id, f))' <=> ~IsRemove(id, f))]_vars

\* A host still tracks a.ts, deleted on disk since, while the engine works
\* on a later call for another file of the project.
C15_Witness ==
  /\ call.op # "idle"
  /\ CurrentStep \in EngineSteps
  /\ call.file = FileB
  /\ Holds(call.project, FileA)
  /\ ~disk[FileA].ok

\* The options getOptions makes of a configuration text ("none": no file).
OptionsOfText(text) ==
  IF text = "none" THEN [of |-> "{}"]
  ELSE parseJsonConfigFileContent(parseConfigFileTextToJson(text).config).options

\* C16. Immutable session configuration: the options a host answers with
\* are the ones made of the configuration text its constructor read, and no
\* step changes them, a rewrite of the configuration file on disk included.
C16_OptionsFixed ==
  [][\A id \in DOMAIN heap :
       /\ (getCompilationSettings(Host(id)))' = getCompilationSettings(Host(id))
       /\ getCompilationSettings(Host(id)) = OptionsOfText(Host(id).configText)]_vars

\* A host answers with the options of the text its constructor read while
\* the configuration file of its root holds another text, during a later call.
C16_Witness ==
  /\ call.op # "idle"
  /\ CurrentStep \in EngineSteps
  /\ config[Host(call.project).root] # Host(call.project).configText
  /\ getCompilationSettings(Host(call.project)) # getOptions(Host(call.project).root)

\* The step belongs to an operation through host id: a step of a call the
\* Workspace routed to it, or its index or removeFile called directly.
OperatesOn(id) ==
  \/ call.op # "idle" /\ call.project = id
  \/ \E f \in Files : IsIndex(id, f) \/ IsRemove(id, f)

\* C17. Session independence: a step changes the files, the project version
\* or the options of a host only when it belongs to an operation through
\* that host; every other host keeps all three, and hosts are never taken
\* out of the workspace.
C17_SessionIndependence ==
  [][/\ \A id \in DOMAIN heap :
          \/ OperatesOn(id)
          \/ /\ heap'[id].files = heap[id].files
             /\ (getProjectVersion(Host(id)))' = getProjectVersion(Host(id))
             /\ (getCompilationSettings(Host(id)))' = getCompilationSettings(Host(id))
     /\ DOMAIN heap \subseteq DOMAIN heap']_vars

\* Two hosts hold a.ts, the first as it was read before the file changed,
\* the second, at work on a call of its own, as it is on disk now.
C17_Witness ==
  /\ Len(heap) = 2
  /\ call.op # "idle" /\ call.project = 2
  /\ Holds(1, FileA) /\ Holds(2, FileA)
  /\ Held(1, FileA).snapshot = Str("x")
  /\ Held(2, FileA).snapshot = EmptyString
  /\ getProjectVersion(Host(1)) # getProjectVersion(Host(2))

\* C18. Walk avoidance: a file that is routed to a project has had at most
\* one tsconfig.findSync walk made for it, however many Workspace.diagnose /
\* compile calls have named it.
C18_AtMostOneWalk ==
  \A f \in DOMAIN walks : getRoot(f).found => walks[f] <= 1

\* C19. Only the requested file is refreshed: while a call is at work, the
\* record its host holds for a path changes only in the track step and only
\* for the call's own file; a getter asked for a held path answers from the
\* held record and changes neither the host nor the disk, whatever the file
\* on disk holds by then.
C19_OnlyRequestedRefreshed ==
  [][call.op # "idle" =>
       /\ heap' # heap =>
            \A g \in Files :
              Holds(call.project, g) =>
                /\ MapHas(heap'[call.project].files, g)
                /\ MapGet(heap'[call.project].files, g) # Held(call.project, g)
                     => CurrentStep = "track" /\ g = call.file
       /\ \A g \in Files :
            (IsPull(g) /\ Holds(call.project, g)) =>
              /\ heap' = heap
              /\ disk' = disk
              /\ pulled'.info = Held(call.project, g)
              /\ call' = call]_vars

\* The engine has just been answered from the record of a file other than
\* the call's, which is readable and holds another text on disk by now.
C19_Witness ==
  /\ call.op # "idle"
  /\ pulled.info.kind # "none"
  /\ pulled.file # call.file
  /\ Holds(call.project, pulled.file)
  /\ pulled.info = Held(call.project, pulled.file)
  /\ disk[pulled.file].ok
  /\ pulled.info.snapshot # disk[pulled.file].text

\* The kind the extension stands for.
KindOfExtension(ext) ==
  CASE ext = ".js" -> "JS"
    [] ext = ".jsx" -> "JSX"
    [] ext = ".ts" -> "TS"
    [] ext = ".tsx" -> "TSX"
    [] OTHER -> "Unknown"

\* C20. Script kind follows the extension: the kind of every record a host
\* holds, which is what getScriptKind returns for the path, is JS for .js,
\* JSX for .jsx, TS for .ts, TSX for .tsx and Unknown for any other extension.
C20_KindFollowsExtension ==
  /\ \A id \in DOMAIN heap : \A f \in Files :
       Holds(id, f) => Held(id, f).kind = KindOfExtension(f.ext)
  /\ pulled.info.kind # "none" => pulled.info.kind = KindOfExtension(pulled.file.ext)

====
